---- MODULE Spec2Model ----
(***************************************************************************)
(* Model of Scanner.py: the stock screener that loads a ticker universe,   *)
(* fetches one snapshot per ticker on a thread pool, screens each resolved *)
(* record against three thresholds and publishes the hits.                 *)
(*                                                                         *)
(* Numbers.  Every numeric value is a record [k, n, d]: k = "num" is the   *)
(* exact rational n/d (d > 0); "nan", "inf" and "ninf" are the IEEE        *)
(* specials numpy.float64 arithmetic produces; "None" is Python's None and *)
(* "missing" is a key absent from the provider's info dict.  Binary        *)
(* rounding of float64 is not modelled: arithmetic on "num" is exact.      *)
(***************************************************************************)
EXTENDS Integers, Sequences, FiniteSets, TLC

\* ---------------------------------------------------------------- config
DEFAULT_MIN_MARKET_CAP == 500000000
DEFAULT_MIN_AVG_VOLUME == 1000000
DEFAULT_MAX_PCT == [k |-> "num", n |-> 5, d |-> 100]
MAX_WORKERS == 8

\* ---------------------------------------------------------------- bounds
\* Longest ticker universe of the general specification.
MaxTickers == 3

\* ---------------------------------------------------------------- values
Num(x) == [k |-> "num", n |-> x, d |-> 1]
Ratio(x, y) == [k |-> "num", n |-> x, d |-> y]
NaN == [k |-> "nan", n |-> 0, d |-> 1]
PInf == [k |-> "inf", n |-> 0, d |-> 1]
NInf == [k |-> "ninf", n |-> 0, d |-> 1]
NoneV == [k |-> "None", n |-> 0, d |-> 1]
Missing == [k |-> "missing", n |-> 0, d |-> 1]

\* dict.get(key, default): the default only replaces an absent key; a key
\* that is present with value None yields None.
DictGet(v, default) == IF v.k = "missing" THEN default ELSE v

\* float64 subtraction a - b (operands are "num" or "nan" here).
FSub(a, b) ==
    IF a.k = "nan" \/ b.k = "nan" THEN NaN
    ELSE Ratio(a.n * b.d - b.n * a.d, a.d * b.d)

\* numpy.float64 division a / b: a zero divisor does not raise, it yields
\* nan (0/0), inf or -inf with a RuntimeWarning.
FDiv(a, b) ==
    IF a.k = "nan" \/ b.k = "nan" THEN NaN
    ELSE IF b.n = 0
         THEN IF a.n = 0 THEN NaN ELSE IF a.n > 0 THEN PInf ELSE NInf
         ELSE IF b.n > 0 THEN Ratio(a.n * b.d, a.d * b.n)
                         ELSE Ratio(-(a.n * b.d), -(a.d * b.n))

\* Le with a strict comparison of two numbers.
LeMutStrict(a, b) ==
    IF a.k = "None" \/ b.k = "None" THEN "raise"
    ELSE IF a.k = "nan" \/ b.k = "nan" THEN "F"
    ELSE IF a.k = "ninf" \/ b.k = "inf" THEN "T"
    ELSE IF a.k = "inf" \/ b.k = "ninf" THEN "F"
    ELSE IF a.n * b.d < b.n * a.d THEN "T" ELSE "F"

\* a <= b on floats, as "T"/"F", or "raise" (TypeError) when an operand is None.
Le(a, b) ==
    IF a.k = "None" \/ b.k = "None" THEN "raise"
    ELSE IF a.k = "nan" \/ b.k = "nan" THEN "F"
    ELSE IF a.k = "ninf" \/ b.k = "inf" THEN "T"
    ELSE IF a.k = "inf" \/ b.k = "ninf" THEN "F"
    ELSE IF a.n * b.d <= b.n * a.d THEN "T" ELSE "F"

\* a >= b.
Ge(a, b) == Le(b, a)

\* ------------------------------------------------------------ fetch_info
\* What a call can produce: None, a raised exception, or the dict.
None == [type |-> "NoneType"]
Exc == [type |-> "Exception"]

\* `None in (ath, w52, curr)`: only a None element matches, a nan does not.
NoneIn(ath, w52, curr) == ath.k = "None" \/ w52.k = "None" \/ curr.k = "None"

Record(ticker, mc, adv, ath, w52, curr) ==
    [type |-> "dict",
     Ticker |-> ticker,
     Current |-> curr,
     AllTimeHigh |-> ath,
     PctToATH |-> FDiv(FSub(ath, curr), ath),
     w52High |-> w52,
     PctTo52w |-> FDiv(FSub(w52, curr), w52),
     MarketCap |-> mc,
     AvgVolume |-> adv]

\* The body of fetch_info's try block against a provider behaviour p (one
\* that answers): tk.info or tk.history may raise.
FetchBody(ticker, p) ==
    IF p.info = "raise" THEN Exc
    ELSE LET mc == DictGet(p.marketCap, Num(0))
             adv == DictGet(p.averageVolume, Num(0))
         IN IF p.hist = "raise" THEN Exc
            ELSE IF p.hist = "empty" THEN None
            ELSE IF NoneIn(p.ath, p.w52, p.curr) THEN None
            ELSE Record(ticker, mc, adv, p.ath, p.w52, p.curr)

\* fetch_info: `except Exception` maps whatever the body raises to None.
fetch_info(ticker, p) ==
    IF FetchBody(ticker, p).type = "Exception" THEN None ELSE FetchBody(ticker, p)

\* ---------------------------------------------------------------- state
VARIABLES
    MIN_MARKET_CAP,   \* module globals, rewritten by the __main__ prompts
    MIN_AVG_VOLUME,
    MAX_PCT,
    stdin,            \* the answers the prompts have still to read
    csvFile,          \* the universe file: [kind, cols, rows]
    provider,         \* ticker -> what the data provider does for it
    pc,               \* position of the main thread
    tickers,          \* scan_and_save's tickers list
    futures,          \* submitted futures, in submission order: [t, state, result]
    yielded,          \* indices as_completed has handed to the loop
    cur,              \* index of the future the loop body is working on (0: none)
    verdict,          \* per future, what the loop body did with it
    results,          \* scan_and_save's results list
    csvOut,           \* the CSV sink: [written, rows]
    sheetOut,         \* the spreadsheet sink: [written, rows, rule]
    stdout            \* the messages printed so far

vars == <<MIN_MARKET_CAP, MIN_AVG_VOLUME, MAX_PCT, stdin, csvFile, provider, pc, tickers,
          futures, yielded, cur, verdict, results, csvOut, sheetOut, stdout>>

config == <<MIN_MARKET_CAP, MIN_AVG_VOLUME, MAX_PCT>>
sinks == <<csvOut, sheetOut>>

\* ------------------------------------------------------------- screening
\* Gate with the two proximity tests joined by `and`.
GateMutAnd(data) ==
    LET c1 == Ge(data.MarketCap, MIN_MARKET_CAP)
        c2 == Ge(data.AvgVolume, MIN_AVG_VOLUME)
        c3 == Le(data.PctToATH, MAX_PCT)
        c4 == Le(data.PctTo52w, MAX_PCT)
    IN IF c1 # "T" THEN c1
       ELSE IF c2 # "T" THEN c2
       ELSE IF c3 # "T" THEN c3
       ELSE c4

\* The condition of the if statement, with Python's short-circuit order:
\* "T", "F", or "raise" when a comparison meets None.
Gate(data) ==
    LET c1 == Ge(data.MarketCap, MIN_MARKET_CAP)
        c2 == Ge(data.AvgVolume, MIN_AVG_VOLUME)
        c3 == Le(data.PctToATH, MAX_PCT)
        c4 == Le(data.PctTo52w, MAX_PCT)
    IN IF c1 # "T" THEN c1
       ELSE IF c2 # "T" THEN c2
       ELSE IF c3 # "F" THEN c3
       ELSE c4

\* ------------------------------------------------------------ publishing
\* round(2): to the nearest hundredth, ties to even; integers and the IEEE
\* specials are unchanged.
Round2(v) ==
    IF v.k # "num" \/ v.d = 1 THEN v
    ELSE LET s == v.n * 100
             q == s \div v.d
             r == s % v.d
             up == (2 * r > v.d) \/ (2 * r = v.d /\ q % 2 = 1)
         IN Ratio(IF up THEN q + 1 ELSE q, 100)

RoundRow(rec) ==
    [rec EXCEPT !.Current = Round2(@), !.AllTimeHigh = Round2(@),
                !.PctToATH = Round2(@), !.w52High = Round2(@),
                !.PctTo52w = Round2(@), !.MarketCap = Round2(@),
                !.AvgVolume = Round2(@)]

\* df_out: one row per record of results, in the same order, rounded.
DfOut(res) == [j \in 1..Len(res) |-> RoundRow(res[j])]

\* ------------------------------------------------------------------ main
\* str.lower() and str.strip() on the answers and headers the model uses.
Lower(h) ==
    CASE h = "Y" -> "y"
      [] h = "Ticker" -> "ticker"
      [] h = "Symbol" -> "symbol"
      [] h = "CODE" -> "code"
      [] h = "Name" -> "name"
      [] OTHER -> h

Strip(h) == IF h = " " THEN "" ELSE h

\* float(inp): the parsed number, or None when float() raises ValueError.
ParseFloat(text) ==
    CASE text = "0" -> Num(0)
      [] text = "0.02" -> Ratio(2, 100)
      [] OTHER -> NoneV

\* One prompt of __main__: 'y', a blank or an unparsable answer keeps the
\* current value, a number replaces it.
Prompt(inp, current) ==
    IF Lower(inp) # "y" /\ Strip(inp) # ""
    THEN IF ParseFloat(inp).k = "None" THEN current ELSE ParseFloat(inp)
    ELSE current

\* __main__: the three prompts, then the call of scan_and_save.
Configure ==
    /\ pc = "prompt"
    /\ MIN_MARKET_CAP' = Prompt(stdin[1], MIN_MARKET_CAP)
    /\ MIN_AVG_VOLUME' = Prompt(stdin[2], MIN_AVG_VOLUME)
    /\ MAX_PCT' = Prompt(stdin[3], MAX_PCT)
    /\ stdin' = <<>>
    /\ pc' = "load"
    /\ UNCHANGED <<stdout, csvFile, provider, tickers, futures, yielded, cur, verdict,
                   results, sinks>>

\* TickerCol that takes the first column, whatever its header.
TickerColMutFirst(cols) == IF cols = <<>> THEN "" ELSE Head(cols)

\* The first column whose lower-cased header is an accepted name, or "".
RECURSIVE TickerCol(_)
TickerCol(cols) ==
    IF cols = <<>> THEN ""
    ELSE IF Lower(Head(cols)) \in {"ticker", "symbol", "code"} THEN Head(cols)
    ELSE TickerCol(Tail(cols))

\* dropna(): rows without a value are dropped, the order of the rest is kept.
DropNa(rows) == SelectSeq(rows, LAMBDA s : s # "NaN")

\* scan_and_save up to the start of the pool: read the file, find the column.
LoadUniverse ==
    /\ pc = "load"
    /\ IF csvFile.kind = "unreadable"
       THEN pc' = "raised" /\ UNCHANGED <<tickers, stdout>>
       ELSE IF TickerCol(csvFile.cols) = ""
            THEN /\ stdout' = stdout \cup {"No ticker column found"}
                 /\ pc' = "done"
                 /\ UNCHANGED tickers
            ELSE /\ tickers' = DropNa(csvFile.rows)
                 /\ stdout' = stdout \cup {"Scanning"}
                 /\ pc' = IF Len(tickers') = 0 THEN "collect" ELSE "submit"
    /\ UNCHANGED <<config, stdin, csvFile, provider, futures, yielded, cur, verdict,
                   results, sinks>>

\* executor.submit(fetch_info, t) for the next ticker of the list.
Submit ==
    /\ pc = "submit"
    /\ LET i == Len(futures) + 1
       IN /\ futures' = Append(futures,
                 [t |-> tickers[i], state |-> "PENDING", result |-> None])
          /\ verdict' = Append(verdict, "none")
          /\ pc' = IF i = Len(tickers) THEN "collect" ELSE "submit"
    /\ UNCHANGED <<stdout, config, stdin, csvFile, provider, tickers, yielded, cur, results, sinks>>

\* ----------------------------------------------------------------- workers
Running == {i \in 1..Len(futures) : futures[i].state = "RUNNING"}
Finished == {i \in 1..Len(futures) : futures[i].state = "FINISHED"}

\* WorkerFree for a pool without a limit on its threads.
WorkerFreeMutNoCap == TRUE

\* A worker thread may take a work item while fewer than max_workers run one.
WorkerFree == Cardinality(Running) < MAX_WORKERS

\* A worker takes the oldest queued work item and calls fetch_info.
StartFetch(i) ==
    /\ i \in 1..Len(futures)
    /\ futures[i].state = "PENDING"
    /\ \A j \in 1..(i - 1) : futures[j].state # "PENDING"
    /\ WorkerFree
    /\ futures' = [futures EXCEPT ![i].state = "RUNNING"]
    /\ UNCHANGED <<stdout, config, stdin, csvFile, provider, pc, tickers, yielded, cur, verdict,
                   results, sinks>>

\* FinishFetch for a fetch_info that appends its record to results itself.
FinishFetchMutAppend(i) ==
    /\ i \in 1..Len(futures)
    /\ futures[i].state = "RUNNING"
    /\ provider[futures[i].t].info # "hang"
    /\ futures' = [futures EXCEPT
          ![i].state = "FINISHED",
          ![i].result = fetch_info(futures[i].t, provider[futures[i].t])]
    /\ results' = IF futures'[i].result.type = "dict"
                  THEN Append(results, futures'[i].result) ELSE results
    /\ UNCHANGED <<stdout, config, stdin, csvFile, provider, pc, tickers, yielded, cur,
                   verdict, sinks>>

\* fetch_info returns and the future resolves.  fetch_info sets no timeout:
\* when the provider never answers, the call never returns.
FinishFetch(i) ==
    /\ i \in 1..Len(futures)
    /\ futures[i].state = "RUNNING"
    /\ provider[futures[i].t].info # "hang"
    /\ futures' = [futures EXCEPT
          ![i].state = "FINISHED",
          ![i].result = fetch_info(futures[i].t, provider[futures[i].t])]
    /\ UNCHANGED <<stdout, config, stdin, csvFile, provider, pc, tickers, yielded, cur, verdict,
                   results, sinks>>

\* --------------------------------------------------------------- collector
\* as_completed yields a finished future not yet yielded; the loop body reads
\* its result (fut.result() re-raises what the call raised) and goes to sleep.
Collect(i) ==
    /\ pc = "collect"
    /\ i \in Finished \ yielded
    /\ yielded' = yielded \cup {i}
    /\ IF futures[i].result.type = "Exception"
       THEN /\ verdict' = [verdict EXCEPT ![i] = "raised"]
            /\ pc' = "unwind"
            /\ UNCHANGED cur
       ELSE /\ cur' = i
            /\ pc' = "sleep"
            /\ UNCHANGED verdict
    /\ UNCHANGED <<stdout, config, stdin, csvFile, provider, tickers, futures, results, sinks>>

\* results.append(data) at the front of the list.
AppendResultMutFront(res, data) == <<data>> \o res

\* results.append(data).
AppendResult(res, data) == Append(res, data)

\* The rest of the loop body, after the sleep: skip a non-dict, screen a dict
\* and append it when the condition holds; a TypeError leaves the loop.
Evaluate ==
    /\ pc = "sleep"
    /\ LET data == futures[cur].result
       IN IF data.type # "dict"
          THEN /\ verdict' = [verdict EXCEPT ![cur] = "skipped"]
               /\ pc' = "collect"
               /\ UNCHANGED results
          ELSE CASE Gate(data) = "T" ->
                      /\ results' = AppendResult(results, data)
                      /\ verdict' = [verdict EXCEPT ![cur] = "accepted"]
                      /\ pc' = "collect"
                 [] Gate(data) = "F" ->
                      /\ verdict' = [verdict EXCEPT ![cur] = "rejected"]
                      /\ pc' = "collect"
                      /\ UNCHANGED results
                 [] OTHER ->
                      /\ verdict' = [verdict EXCEPT ![cur] = "raised"]
                      /\ pc' = "unwind"
                      /\ UNCHANGED results
    /\ cur' = 0
    /\ UNCHANGED <<stdout, config, stdin, csvFile, provider, tickers, futures, yielded, sinks>>

\* Exhausted for a loop that stops at the first completed future.
ExhaustedMutFirst == yielded # {} \/ tickers = <<>>

\* as_completed has yielded every future.
Exhausted == yielded = 1..Len(tickers)

\* as_completed is exhausted: the with block ends (nothing is left to wait for).
LeavePool ==
    /\ pc = "collect"
    /\ Exhausted
    /\ pc' = "publish"
    /\ UNCHANGED <<stdout, config, stdin, csvFile, provider, tickers, futures, yielded, cur,
                   verdict, results, sinks>>

\* An exception leaves the with block: shutdown(wait=True) lets the workers
\* run every queued item, then the exception leaves scan_and_save.
Unwind ==
    /\ pc = "unwind"
    /\ Finished = 1..Len(futures)
    /\ pc' = "raised"
    /\ UNCHANGED <<stdout, config, stdin, csvFile, provider, tickers, futures, yielded, cur,
                   verdict, results, sinks>>

\* After the pool: the no-matches return, or the CSV write (which may raise).
Publish ==
    /\ pc = "publish"
    /\ IF results = <<>>
       THEN /\ stdout' = stdout \cup {"No matches today"}
            /\ pc' = "done"
            /\ UNCHANGED csvOut
       ELSE \E ok \in BOOLEAN :
              IF ok
              THEN /\ csvOut' = [written |-> TRUE, rows |-> DfOut(results)]
                   /\ stdout' = stdout \cup {"Wrote hits"}
                   /\ pc' = "sheet"
              ELSE pc' = "raised" /\ UNCHANGED <<csvOut, stdout>>
    /\ UNCHANGED <<config, stdin, csvFile, provider, tickers, futures, yielded, cur,
                   verdict, results, sheetOut>>

\* The highlight rule with the compiled-in default as its bound.
HighlightRuleMutDefault == DEFAULT_MAX_PCT

\* The bound of the conditional-format formula: the global MAX_PCT as it is
\* when send_to_sheet runs.
HighlightRule == MAX_PCT

\* send_to_sheet(df_out).  It may raise before anything is written, or after
\* the rows are pushed and before the formatting requests are done; nothing
\* in scan_and_save or __main__ catches the exception.
SendToSheet ==
    /\ pc = "sheet"
    /\ \E outcome \in {"ok", "open fails", "format fails"} :
          CASE outcome = "ok" ->
                 /\ sheetOut' = [written |-> TRUE, rows |-> csvOut.rows,
                                 rule |-> HighlightRule]
                 /\ stdout' = stdout \cup {"Pushed rows", "Applied highlights"}
                 /\ pc' = "done"
            [] outcome = "format fails" ->
                 /\ sheetOut' = [written |-> TRUE, rows |-> csvOut.rows, rule |-> NaN]
                 /\ stdout' = stdout \cup {"Pushed rows"}
                 /\ pc' = "raised"
            [] OTHER ->
                 /\ pc' = "raised"
                 /\ UNCHANGED <<sheetOut, stdout>>
    /\ UNCHANGED <<config, stdin, csvFile, provider, tickers, futures, yielded, cur,
                   verdict, results, csvOut>>

\* The exit status of the process: 0 when __main__ runs to its end, 1 when
\* an exception leaves scan_and_save (nothing in __main__ catches it).
ExitStatus == IF pc = "raised" THEN 1 ELSE 0

MainThread ==
    \/ Configure
    \/ LoadUniverse
    \/ Submit
    \/ \E i \in 1..Len(futures) : Collect(i)
    \/ Evaluate
    \/ LeavePool
    \/ Unwind
    \/ Publish
    \/ SendToSheet

Worker(i) == StartFetch(i) \/ FinishFetch(i)

Next ==
    \/ Configure
    \/ LoadUniverse
    \/ Submit
    \/ \E i \in 1..Len(futures) : StartFetch(i)
    \/ \E i \in 1..Len(futures) : FinishFetch(i)
    \/ \E i \in 1..Len(futures) : Collect(i)
    \/ Evaluate
    \/ LeavePool
    \/ Unwind
    \/ Publish
    \/ SendToSheet

\* ------------------------------------------------------------ environment
Beh(info, mc, adv, hist, ath, w52, curr) ==
    [info |-> info, marketCap |-> mc, averageVolume |-> adv, hist |-> hist,
     ath |-> ath, w52 |-> w52, curr |-> curr]

\* Behaviours that give no record, whatever the rest of the answer is.
InfoRaises == Beh("raise", Missing, Missing, "raise", NaN, NaN, NaN)
NeverAnswers == Beh("hang", Missing, Missing, "raise", NaN, NaN, NaN)
Rows(mc, adv, ath, w52, curr) == Beh("ok", mc, adv, "rows", ath, w52, curr)

\* The scenario of the general specification: AAA passes the default
\* thresholds, BBB fails to fetch, CCC is below the market-cap threshold, DDD
\* has a null market cap, EEE never gets an answer.
Symbols == {"AAA", "BBB", "CCC", "DDD", "EEE"}

CoreProvider ==
    [s \in Symbols |->
        CASE s = "AAA" -> Rows(Num(1000000000), Num(2000000), Num(100), Num(100), Num(97))
          [] s = "BBB" -> InfoRaises
          [] s = "CCC" -> Rows(Num(100000000), Num(2000000), Num(100), Num(100), Num(97))
          [] s = "DDD" -> Rows(NoneV, Num(2000000), Num(100), Num(100), Num(97))
          [] OTHER -> NeverAnswers]

SeqsUpTo(S, n) == UNION {[1..m -> S] : m \in 0..n}

\* Universe files: unreadable, without a ticker column, or with one and the
\* given rows.
Files(rows) ==
    {[kind |-> "unreadable", cols |-> <<>>, rows |-> <<>>],
     [kind |-> "ok", cols |-> <<"Name">>, rows |-> <<"AAA">>]}
    \cup {[kind |-> "ok", cols |-> c, rows |-> r] :
            c \in {<<"Name", "Symbol">>}, r \in rows}

\* Answers to the three prompts.
Defaults == {<<"y", "y", "y">>}
Answers ==
    ({"y", "abc", "0"} \X {"y", "abc", "0"} \X {"y", "abc", "0.02"})
    \cup {<<"Y", "", " ">>}

\* The state when __main__ starts: the globals hold the defaults.
InitWith(answers, files, providers) ==
    /\ MIN_MARKET_CAP = Num(DEFAULT_MIN_MARKET_CAP)
    /\ MIN_AVG_VOLUME = Num(DEFAULT_MIN_AVG_VOLUME)
    /\ MAX_PCT = DEFAULT_MAX_PCT
    /\ stdin \in answers
    /\ csvFile \in files
    /\ provider \in providers
    /\ pc = "prompt"
    /\ tickers = <<>>
    /\ futures = <<>>
    /\ yielded = {}
    /\ cur = 0
    /\ verdict = <<>>
    /\ results = <<>>
    /\ csvOut = [written |-> FALSE, rows |-> <<>>]
    /\ sheetOut = [written |-> FALSE, rows |-> <<>>, rule |-> NaN]
    /\ stdout = {}

\* General specification: any universe of up to MaxTickers scenario symbols,
\* the default thresholds or no floor on market cap and volume (CCC then
\* passes as AAA does).
Init ==
    InitWith(Defaults \cup {<<"0", "0", "y">>},
             Files(SeqsUpTo(Symbols, MaxTickers)), {CoreProvider})

Spec == Init /\ [][Next]_vars

\* Screening specification: one ticker, every sampled provider answer and
\* every combination of prompt answers.
CapSamples ==
    {Missing, NoneV, Num(0), Num(DEFAULT_MIN_MARKET_CAP - 1), Num(DEFAULT_MIN_MARKET_CAP)}
VolSamples ==
    {Missing, NoneV, Num(0), Num(DEFAULT_MIN_AVG_VOLUME - 1), Num(DEFAULT_MIN_AVG_VOLUME)}
HighSamples == {Num(0), Num(100)}
W52Samples == {NaN, Num(0), Num(96), Num(100)}
CloseSamples == {Num(0), Num(94), Num(95), Num(98)}

Behaviours ==
    {InfoRaises, NeverAnswers}
    \cup {Beh("ok", mc, adv, h, NaN, NaN, NaN) :
            mc \in CapSamples, adv \in VolSamples, h \in {"raise", "empty"}}
    \cup {Rows(mc, adv, ath, w52, curr) :
            mc \in CapSamples, adv \in VolSamples, ath \in HighSamples,
            w52 \in W52Samples, curr \in CloseSamples}

InitGate ==
    InitWith(Answers, Files({<<"AAA">>, <<"NaN", "AAA">>}),
             {[s \in {"AAA"} |-> b] : b \in Behaviours})

SpecGate == InitGate /\ [][Next]_vars

\* Pool specification: a universe PoolExtra tickers longer than the worker
\* budget; the first ticker passes (AAA) or has a null market cap (DDD), the
\* others fail to fetch.
PoolExtra == 1

PoolRows ==
    {[i \in 1..(MAX_WORKERS + PoolExtra) |-> IF i = 1 THEN s ELSE "BBB"] :
        s \in {"AAA", "DDD"}}

InitPool == InitWith(Defaults, Files(PoolRows), {CoreProvider})

SpecPool == InitPool /\ [][Next]_vars

\* Fair specification: the main thread and every worker keep running while
\* they have a step to take.
LiveSpec ==
    /\ Spec
    /\ WF_vars(MainThread)
    /\ \A i \in 1..MaxTickers : WF_vars(Worker(i))

\* ------------------------------------------------------------ properties
\* The order of the extended reals, written out for the statements below:
\* nothing compares with nan or None.
Ordered(a) == a.k \in {"num", "inf", "ninf"}
Leq(a, b) ==
    /\ Ordered(a) /\ Ordered(b)
    /\ \/ a.k = "ninf"
       \/ b.k = "inf"
       \/ a.k = "num" /\ b.k = "num" /\ a.n * b.d <= b.n * a.d
Eq(a, b) == a.k = "num" /\ b.k = "num" /\ a.n * b.d = b.n * a.d
Lt(a, b) == Leq(a, b) /\ ~Leq(b, a)

Idx == 1..Len(futures)
Data(i) == futures[i].result
\* The loop body has screened the record of future i.
Screened(i) == Data(i).type = "dict" /\ verdict[i] \in {"accepted", "rejected", "raised"}
Accepted == {i \in Idx : verdict[i] = "accepted"}

\* The screening predicate of the specification.
Passes(d) ==
    /\ Leq(MIN_MARKET_CAP, d.MarketCap)
    /\ Leq(MIN_AVG_VOLUME, d.AvgVolume)
    /\ (Leq(d.PctToATH, MAX_PCT) \/ Leq(d.PctTo52w, MAX_PCT))

\* results holds the records of the accepted futures and nothing else.
ResultsAreAccepted ==
    /\ Len(results) = Cardinality(Accepted)
    /\ \A i \in Accepted : \E j \in 1..Len(results) : results[j] = Data(i)
    /\ \A j \in 1..Len(results) : \E i \in Accepted : results[j] = Data(i)

\* C1: a record returned by a fetch is appended to results if and only if
\* MarketCap >= MIN_MARKET_CAP and AvgVolume >= MIN_AVG_VOLUME and
\* (PctToATH <= MAX_PCT or PctTo52w <= MAX_PCT), under every threshold
\* configuration.
C1_AppendIffPasses ==
    /\ ResultsAreAccepted
    /\ \A i \in Idx : Screened(i) => (verdict[i] = "accepted" <=> Passes(Data(i)))

\* C1 witness: a record that fails the all-time-high test and passes the
\* 52-week test, with both other gates passing, has just been appended.
C1_Witness ==
    \E i \in Accepted :
        /\ Data(i) = results[Len(results)]
        /\ ~Leq(Data(i).PctToATH, MAX_PCT)
        /\ Leq(Data(i).PctTo52w, MAX_PCT)

Proximity(d) == Leq(d.PctToATH, MAX_PCT) \/ Leq(d.PctTo52w, MAX_PCT)

\* C2: the comparisons are boundary-inclusive.  A screened record is accepted
\* when one of its values equals its threshold and the other gates pass; it
\* is not accepted when its market cap or its volume is below the threshold,
\* nor when both distances are above MAX_PCT.
C2_BoundaryInclusive ==
    \A i \in Idx : Screened(i) =>
        LET d == Data(i)
            acc == verdict[i] = "accepted" /\ \E j \in 1..Len(results) : results[j] = d
        IN /\ (Eq(d.MarketCap, MIN_MARKET_CAP) /\ Leq(MIN_AVG_VOLUME, d.AvgVolume)
                  /\ Proximity(d)) => acc
           /\ (Leq(MIN_MARKET_CAP, d.MarketCap) /\ Eq(d.AvgVolume, MIN_AVG_VOLUME)
                  /\ Proximity(d)) => acc
           /\ (Leq(MIN_MARKET_CAP, d.MarketCap) /\ Leq(MIN_AVG_VOLUME, d.AvgVolume)
                  /\ (Eq(d.PctToATH, MAX_PCT) \/ Eq(d.PctTo52w, MAX_PCT))) => acc
           /\ Lt(d.MarketCap, MIN_MARKET_CAP) => ~acc
           /\ Lt(d.AvgVolume, MIN_AVG_VOLUME) => ~acc
           /\ (Lt(MAX_PCT, d.PctToATH) /\ Lt(MAX_PCT, d.PctTo52w)) => ~acc

\* C2 witness: a record with all of market cap, volume and distance to the
\* all-time high exactly on the thresholds, and no help from the 52-week
\* side, has been accepted.
C2_Witness ==
    \E i \in Accepted :
        /\ Eq(Data(i).MarketCap, MIN_MARKET_CAP)
        /\ Eq(Data(i).AvgVolume, MIN_AVG_VOLUME)
        /\ Eq(Data(i).PctToATH, MAX_PCT)
        /\ ~Leq(Data(i).PctTo52w, MAX_PCT)

\* The provider gives no usable snapshot for ticker s: the fetch fails, or
\* the answer lacks a required field or has a null in it.
Unusable(v) == v.k \in {"missing", "None"}
FailsToFetch(s) ==
    LET p == provider[s]
    IN \/ p.info # "ok"
       \/ p.hist # "rows"
       \/ Unusable(p.marketCap) \/ Unusable(p.averageVolume)
       \/ Unusable(p.ath) \/ Unusable(p.w52) \/ Unusable(p.curr)

\* C3: when the fetch fails for a strict subset of the universe, no
\* exception leaves the collection loop, and after the loop results holds
\* exactly the records of the succeeding tickers that pass the screening.
C3_PartialFailureIsolated ==
    (\E i \in 1..Len(tickers) : ~FailsToFetch(tickers[i])) =>
        /\ pc # "unwind"
        /\ pc \in {"publish", "sheet", "done"} =>
              /\ \A i \in Idx :
                    (\E j \in 1..Len(results) : results[j] = Data(i))
                       <=> (~FailsToFetch(tickers[i]) /\ Passes(Data(i)))
              /\ Len(results) =
                    Cardinality({i \in Idx : ~FailsToFetch(tickers[i]) /\ Passes(Data(i))})

\* A dict with every required field holding a number.
Populated(d) ==
    /\ d.type = "dict"
    /\ \A v \in {d.MarketCap, d.AvgVolume, d.Current, d.AllTimeHigh, d.w52High} :
          v.k \notin {"None", "missing"}

\* C4: whatever the provider does, a resolved fetch_info call has raised
\* nothing and has returned None or a fully populated record: one made of the
\* provider's own values, with no field left out or null.
C4_TotalFetch ==
    \A i \in Idx : futures[i].state = "FINISHED" =>
        \/ Data(i).type = "NoneType"
        \/ /\ Populated(Data(i))
           /\ ~Unusable(provider[futures[i].t].marketCap)
           /\ ~Unusable(provider[futures[i].t].averageVolume)

\* A resolved fetch_info call never holds an exception (the part of C4 the
\* code does keep).
FetchNeverRaises ==
    \A i \in Idx : futures[i].state = "FINISHED" => Data(i).type # "Exception"

\* C5: a snapshot whose all-time high or 52-week high is 0 gives None, so no
\* record with a zero high is ever screened or appended.
C5_ZeroHighAbsent ==
    \A i \in Idx :
        LET p == provider[futures[i].t]
        IN (futures[i].state = "FINISHED" /\ p.info = "ok" /\ p.hist = "rows"
               /\ (p.ath = Num(0) \/ p.w52 = Num(0)))
           => (Data(i).type = "NoneType" /\ verdict[i] \notin {"accepted", "rejected"})

\* C6: every record that reaches the screening condition has its market
\* cap, average volume, price and both highs from the provider: none of them
\* is a substituted default, a null or a nan.
C6_ScreenedArePopulated ==
    \A i \in Idx : Screened(i) =>
        LET p == provider[futures[i].t]
        IN \A v \in {p.marketCap, p.averageVolume, p.curr, p.ath, p.w52} :
              v.k \notin {"missing", "None", "nan"}

\* The scan is in or past its publishing phase.
Publishing == pc \in {"publish", "sheet", "done"} \/ csvOut.written \/ sheetOut.written

\* Every ticker has a future that resolved.
AllAttempted ==
    /\ Len(futures) = Len(tickers)
    /\ \A i \in Idx : futures[i].state = "FINISHED"

\* C7: the publishing phase is reached only after every ticker's fetch has
\* resolved and gone through the loop body; a scan that ends, normally or
\* with an exception, has attempted every ticker; and results no longer
\* changes once the publishing phase is reached.
C7_PublishAfterAll ==
    /\ [](Publishing =>
            /\ AllAttempted
            /\ \A i \in Idx : i \in yielded /\ verdict[i] \in {"skipped", "accepted", "rejected"})
    /\ [](pc \in {"done", "raised"} => AllAttempted)
    /\ [][Publishing => results' = results]_vars

\* C7 witness: a scan of several tickers, one failed and one accepted, has
\* handed its result to both sinks.
C7_Witness ==
    /\ pc = "done" /\ csvOut.written /\ sheetOut.written
    /\ Len(tickers) >= 2
    /\ \E i \in Idx : verdict[i] = "skipped"
    /\ \E i \in Idx : verdict[i] = "accepted"

\* C8: the scan eventually completes, whatever the provider does.
C8_ScanCompletes == <>(pc \in {"done", "raised"})

\* C9: at most MAX_WORKERS fetch_info calls are in flight.
C9_BoundedInFlight == Cardinality(Running) <= MAX_WORKERS

\* C9 witness: the budget binds, MAX_WORKERS calls run while a ticker waits.
C9_Witness ==
    /\ Cardinality(Running) = MAX_WORKERS
    /\ \E i \in Idx : futures[i].state = "PENDING"

\* C10: no worker starts a fetch while the pacing sleep is running.
C10_PacedStarts ==
    [][(\E i \in Idx : futures[i].state = "PENDING" /\ futures'[i].state = "RUNNING")
          => pc # "sleep"]_vars

\* What the provider's data gives for ticker t, whenever it is fetched.
Fetched(t) == fetch_info(t, provider[t])
ResultSet == {results[j] : j \in 1..Len(results)}
PassingTickers ==
    {i \in 1..Len(tickers) :
        Fetched(tickers[i]).type = "dict" /\ Passes(Fetched(tickers[i]))}

\* C11: the result of a scan, as a set, is a function of the universe, the
\* thresholds and the provider's data alone: under every interleaving and
\* completion order a scan that reaches its publishing phase holds exactly
\* the records of the passing tickers, and a scan leaves the loop with an
\* exception only when the data holds a record whose screening raises; so
\* two runs over the same inputs give results that are equal as sets.
C11_ResultDetermined ==
    /\ Publishing =>
          /\ ResultSet = {Fetched(tickers[i]) : i \in PassingTickers}
          /\ \A i \in 1..Len(tickers) :
                Fetched(tickers[i]).type = "dict" => Gate(Fetched(tickers[i])) # "raise"
    /\ pc = "unwind" =>
          \E i \in 1..Len(tickers) :
              Fetched(tickers[i]).type = "dict" /\ Gate(Fetched(tickers[i])) = "raise"

\* C11 witness: a finished scan whose two accepted records were collected in
\* the reverse of their submission order.
C11_Witness ==
    /\ pc = "done" /\ Len(tickers) = 2 /\ Len(results) = 2
    /\ tickers[1] # tickers[2]
    /\ results[1].Ticker = tickers[2]
    /\ results[2].Ticker = tickers[1]

\* The universe file was read and no header is an accepted ticker name.
NoTickerColumn ==
    /\ csvFile.kind = "ok"
    /\ \A k \in 1..Len(csvFile.cols) :
          Lower(csvFile.cols[k]) \notin {"ticker", "symbol", "code"}
\* The universe file was read and has a ticker column.
Loaded == csvFile.kind = "ok" /\ ~NoTickerColumn
Ended == pc \in {"done", "raised"}

\* C12: a scan whose universe is empty or has no passing ticker ends
\* normally: no exception, the no-matches message is printed, nothing is
\* written to a sink, and the exit status is 0.
C12_EmptyResultIsNormal ==
    (Loaded /\ Ended /\ PassingTickers = {}) =>
        /\ pc = "done"
        /\ ExitStatus = 0
        /\ "No matches today" \in stdout
        /\ ~csvOut.written /\ ~sheetOut.written
        /\ results = <<>>

\* C13: with no ticker, symbol or code column the run reports the missing
\* column and ends: no future is ever submitted, no sink is written and the
\* scan's own messages are never printed.
C13_AbortBeforeFetch ==
    NoTickerColumn =>
        /\ pc \in {"prompt", "load", "done"}
        /\ tickers = <<>> /\ futures = <<>>
        /\ ~csvOut.written /\ ~sheetOut.written
        /\ stdout \subseteq {"No ticker column found"}
        /\ pc = "done" => "No ticker column found" \in stdout

\* C13 witness: a file with rows and no ticker column has been reported.
C13_Witness ==
    /\ NoTickerColumn /\ csvFile.rows # <<>>
    /\ pc = "done" /\ "No ticker column found" \in stdout

\* C14: the process exits with a non-zero status exactly when the universe
\* file cannot be read or has no ticker column.
C14_ExitStatus ==
    Ended => (ExitStatus # 0 <=> (csvFile.kind = "unreadable" \/ NoTickerColumn))

\* The collection loop ran to its end with something to publish.
LoopDone ==
    /\ Loaded /\ Len(futures) = Len(tickers) /\ yielded = 1..Len(tickers)
    /\ \A i \in Idx : verdict[i] \in {"skipped", "accepted", "rejected"}

\* C15: when a scan with hits has ended, a failure of one sink has stopped
\* neither the run (it ends normally) nor the other sink (at least one of the
\* CSV file and the sheet has the rows; both when no sink failed).
C15_SinksIsolated ==
    (Ended /\ LoopDone /\ results # <<>>) =>
        /\ pc = "done"
        /\ csvOut.written \/ sheetOut.written

\* C16: the three thresholds change only in the prompts, before
\* scan_and_save starts, and the highlight rule written to the sheet has the
\* MAX_PCT the screening used.
C16_ConfigFixed ==
    /\ [][pc # "prompt" =>
            /\ MIN_MARKET_CAP' = MIN_MARKET_CAP
            /\ MIN_AVG_VOLUME' = MIN_AVG_VOLUME
            /\ MAX_PCT' = MAX_PCT]_vars
    /\ []((sheetOut.written /\ pc = "done") => sheetOut.rule = MAX_PCT)

\* C16 witness: a scan run with an overridden MAX_PCT has written its
\* highlight rule.
C16_Witness ==
    /\ pc = "done" /\ sheetOut.written
    /\ MAX_PCT # DEFAULT_MAX_PCT
    /\ sheetOut.rule = MAX_PCT
    /\ \E i \in Accepted : Leq(Data(i).PctToATH, MAX_PCT)

\* The lifecycle state of the occurrence behind future i.
Stage(i) ==
    CASE futures[i].state = "PENDING" -> "Pending"
      [] futures[i].state = "RUNNING" -> "Fetching"
      [] Data(i).type # "dict" -> "Absent"
      [] verdict[i] = "accepted" -> "Accepted"
      [] verdict[i] = "rejected" -> "Rejected"
      [] OTHER -> "Derived"

StageAfter(st) ==
    CASE st = "Pending" -> {"Fetching"}
      [] st = "Fetching" -> {"Derived", "Absent"}
      [] st = "Derived" -> {"Accepted", "Rejected"}
      [] OTHER -> {}

\* C17: every occurrence moves Pending -> Fetching -> {Derived, Absent} and
\* Derived -> {Accepted, Rejected} and never leaves Absent, Accepted or
\* Rejected; when the scan has ended every occurrence of the universe is in
\* one of those three; and results holds exactly the records of the Accepted
\* occurrences.
C17_Lifecycle ==
    /\ [][\A i \in Idx : Stage(i)' = Stage(i) \/ Stage(i)' \in StageAfter(Stage(i))]_vars
    /\ []((Loaded /\ Ended) =>
            /\ Len(futures) = Len(tickers)
            /\ \A i \in Idx : Stage(i) \in {"Absent", "Accepted", "Rejected"})
    /\ [](/\ Len(results) = Cardinality({i \in Idx : Stage(i) = "Accepted"})
          /\ ResultSet = {Data(i) : i \in {j \in Idx : Stage(j) = "Accepted"}})

\* C18: results is in the order of collection: whenever results changes,
\* the collector is in the loop body and the record of the future it has
\* just taken from as_completed goes to the end of the list, so one accepted
\* record precedes another exactly when it was collected first.
C18_CompletionOrder ==
    [][results' # results =>
          /\ pc = "sleep" /\ cur \in yielded
          /\ results' = Append(results, Data(cur))]_vars

\* C18 witness: in the loop, the record of the ticker submitted second
\* stands before the record of the ticker submitted first.
C18_Witness ==
    /\ pc = "collect" /\ Len(results) = 2 /\ Len(futures) >= 2
    /\ Data(1) # Data(2)
    /\ results[1] = Data(2) /\ results[2] = Data(1)

\* C19: results has one writer.  A step of a worker (a future changing its
\* state) leaves results alone; results changes only in the collector's loop
\* body, by one record, for a future that had no verdict yet; and the number
\* of records is the number of accepted futures: none lost, none doubled.
C19_SingleWriter ==
    /\ [][(\E i \in Idx : futures'[i].state # futures[i].state) => results' = results]_vars
    /\ [][results' # results =>
            /\ pc = "sleep"
            /\ Len(results') = Len(results) + 1
            /\ verdict[cur] = "none" /\ verdict'[cur] = "accepted"]_vars
    /\ [](Len(results) = Cardinality(Accepted))

\* C19 witness: the collector has appended a record and is in the loop body
\* again while a worker is still inside fetch_info.
C19_Witness ==
    /\ pc = "sleep" /\ results # <<>>
    /\ Running # {}

\* The symbols of the universe file, and how often each occurs.
ValidRows == SelectSeq(csvFile.rows, LAMBDA s : s # "NaN")
Occurrences(s) == Cardinality({k \in 1..Len(ValidRows) : ValidRows[k] = s})
RecordsOf(s) == Cardinality({j \in 1..Len(results) : results[j].Ticker = s})

Duplicated(s) == Occurrences(s) >= 2

\* C20: duplicates are kept.  Future i is the fetch of the i-th symbol of
\* the file; a future runs once (PENDING -> RUNNING -> FINISHED) and gets its
\* verdict once; and when the scan of a universe has ended there are as many
\* fetches as the universe has symbols, every occurrence of a duplicated
\* symbol has been fetched and has its verdict, and a passing symbol that
\* occurs k >= 2 times has k records in results.
C20_DuplicatesIndependent ==
    /\ [](Loaded =>
            /\ Len(futures) <= Len(ValidRows)
            /\ \A i \in Idx : futures[i].t = ValidRows[i])
    /\ [][\A i \in Idx :
            /\ futures'[i].state # futures[i].state =>
                  <<futures[i].state, futures'[i].state>>
                      \in {<<"PENDING", "RUNNING">>, <<"RUNNING", "FINISHED">>}
            /\ verdict[i] # "none" => verdict'[i] = verdict[i]]_vars
    /\ []((Loaded /\ Ended) =>
            /\ Len(futures) = Len(ValidRows)
            /\ \A i \in Idx : Duplicated(futures[i].t) =>
                  /\ futures[i].state = "FINISHED"
                  /\ verdict[i] \in {"skipped", "accepted", "rejected"}
            /\ \A s \in DOMAIN provider :
                  (Duplicated(s) /\ Fetched(s).type = "dict" /\ Passes(Fetched(s)))
                      => RecordsOf(s) = Occurrences(s))

====
